---- MODULE Spec2Model ----
(***************************************************************************)
(* WayDiffer: process_diff of src/src/diff_data.py as a state machine,     *)
(* and the part of main of src/src/main.py that calls it.                  *)
(*                                                                         *)
(* Python strings that the reassembly works on (fragments, markup, line    *)
(* divs) are sequences of one-character strings.  Document bodies, which   *)
(* the code only tests for truth and equality, are abstract names.         *)
(* A Python value "str or None" of the reassembly is an option: <<>> is    *)
(* None and <<s>> is the string s.                                         *)
(***************************************************************************)
EXTENDS Integers, Sequences, FiniteSets, TLC

VARIABLES pc, upstream, content1, content2, ran, diffs, idx, op, line, temp,
          diff_content, line_number, html, result, form, args, outcomes,
          first, sidebar

vars == <<pc, upstream, content1, content2, ran, diffs, idx, op, line, temp,
          diff_content, line_number, html, result, form, args, outcomes,
          first, sidebar>>

-----------------------------------------------------------------------------
(* Bounds of the model.                                                    *)

\* Largest number of operations the diff engine hands to the loop.
MaxOps == 2

\* Largest number of characters in all fragments of a stream together.
MaxChars == 3

-----------------------------------------------------------------------------
(* Program constants.                                                      *)

\* diff_match_patch's operation kinds, as process_op compares them.
DIFF_DELETE == -1

DIFF_INSERT == 1

DIFF_EQUAL == 0

\* "len(content) < 50": the shortest content that counts as a document.
MinContentLen == 50

\* Python's None where the value is otherwise a name (documents, results,
\* span classes).
None == "None"

\* The sentinel process_diff returns for equal documents.
SAME_CONTENT == "SAME CONTENT"

-----------------------------------------------------------------------------
(* Strings as character sequences.                                         *)

NL == "\n"

\* The characters fragments are drawn from: a plain character, the two
\* characters the renderer escapes, and the line terminator.
Chars == {"a", " ", "\t", NL}

NBSP == <<"&", "n", "b", "s", "p", ";">>

SpanOpenHead == <<"<", "s", "p", "a", "n", " ", "c", "l", "a", "s", "s", "=", "\"">>

SpanOpenTail == <<"\"", ">">>

SpanClose == <<"<", "/", "s", "p", "a", "n", ">">>

DivHead == <<"\t", "\t", "\t", "<", "d", "i", "v", " ", "c", "l", "a", "s", "s", "=", "\"", "l", "i", "n", "e", "\"", ">", "<", "s", "p", "a", "n", " ", "c", "l", "a", "s", "s", "=", "\"", "l", "i", "n", "e", "-", "n", "u", "m", "\"", ">">>

DivClose == <<"<", "/", "d", "i", "v", ">">>

\* The characters of a span class name.
ClassChars(span_class) ==
    IF span_class = "added" THEN <<"a", "d", "d", "e", "d">>
    ELSE <<"d", "e", "l", "e", "t", "e", "d">>

DigitChar(d) == <<"0", "1", "2", "3", "4", "5", "6", "7", "8", "9">>[d + 1]

\* str(n) for n >= 0, as the f-string formats line_number.
RECURSIVE IntStr(_)
IntStr(n) ==
    IF n < 10 THEN <<DigitChar(n)>>
    ELSE IntStr(n \div 10) \o <<DigitChar(n % 10)>>

\* A slip in the escaping: str.replace with a count of one, so that only the
\* first occurrence is replaced.
Replace_first(s, c, r) ==
    IF \A i \in 1..Len(s) : s[i] # c THEN s
    ELSE LET i == CHOOSE n \in 1..Len(s) :
                      s[n] = c /\ \A m \in 1..(n - 1) : s[m] # c
         IN SubSeq(s, 1, i - 1) \o r \o SubSeq(s, i + 1, Len(s))

\* s.replace(c, r) for a single character c.
RECURSIVE Replace(_, _, _)
Replace(s, c, r) ==
    IF s = <<>> THEN <<>>
    ELSE (IF Head(s) = c THEN r ELSE <<Head(s)>>) \o Replace(Tail(s), c, r)

\* A slip in the split: a run of newlines counts as one separator.
RECURSIVE Split_runs(_)
Split_runs(text) ==
    IF text = <<>> THEN << <<>> >>
    ELSE LET rest == Split_runs(Tail(text))
         IN IF Head(text) = NL
            THEN (IF Len(text) > 1 /\ text[2] = NL THEN rest ELSE << <<>> >> \o rest)
            ELSE << <<Head(text)>> \o Head(rest) >> \o Tail(rest)

\* text.split("\n"): the segments between newlines, always at least one.
RECURSIVE Split(_)
Split(text) ==
    IF text = <<>> THEN << <<>> >>
    ELSE LET rest == Split(Tail(text))
         IN IF Head(text) = NL THEN << <<>> >> \o rest
            ELSE << <<Head(text)>> \o Head(rest) >> \o Tail(rest)

\* sep.join(parts)
RECURSIVE Join(_, _)
Join(parts, sep) ==
    IF parts = <<>> THEN <<>>
    ELSE IF Len(parts) = 1 THEN parts[1]
    ELSE parts[1] \o sep \o Join(Tail(parts), sep)

\* s starts with prefix.
StartsWith(s, prefix) ==
    /\ Len(s) >= Len(prefix)
    /\ \/ prefix = <<>>
       \/ s[1] = prefix[1] /\ SubSeq(s, 1, Len(prefix)) = prefix

\* `sub` stands in the page at position i.
At(page, i, sub) ==
    /\ i + Len(sub) - 1 <= Len(page)
    /\ page[i] = sub[1]
    /\ SubSeq(page, i, i + Len(sub) - 1) = sub

\* s without its first n characters.
Drop(s, n) == SubSeq(s, n + 1, Len(s))

\* "\n" in text
HasNewline(text) == \E i \in 1..Len(text) : text[i] = NL

\* Python truth of an optional string: neither None nor "".
Truthy(opt) == opt # <<>> /\ opt[1] # <<>>

-----------------------------------------------------------------------------
(* The pure functions of the reassembly.                                   *)

\* A slip in process_op: the kind read by its sign.
process_op_sign(o) ==
    IF o > 0 THEN "added"
    ELSE IF o < 0 THEN "deleted"
    ELSE None

\* A slip in process_op: whatever is not a deletion counts as added.
process_op_else_added(o) ==
    IF o = DIFF_DELETE THEN "deleted" ELSE "added"

process_op(o) ==
    IF o = DIFF_INSERT THEN "added"
    ELSE IF o = DIFF_DELETE THEN "deleted"
    ELSE None

\* A slip in the rendering: no span around an empty text.
render_pair_skips_empty(temp_op, temp_line) ==
    LET span_class == process_op(temp_op)
        data_html == Replace(Replace(temp_line, " ", NBSP), "\t",
                             NBSP \o NBSP \o NBSP \o NBSP)
    IN IF span_class # None /\ data_html # <<>>
       THEN SpanOpenHead \o ClassChars(span_class) \o SpanOpenTail
            \o data_html \o SpanClose
       ELSE data_html

\* One iteration of process_temp's rendering loop: the markup of one pair.
render_pair(temp_op, temp_line) ==
    LET span_class == process_op(temp_op)
        data_html == Replace(Replace(temp_line, " ", NBSP), "\t",
                             NBSP \o NBSP \o NBSP \o NBSP)
    IN IF span_class # None
       THEN SpanOpenHead \o ClassChars(span_class) \o SpanOpenTail
            \o data_html \o SpanClose
       ELSE data_html

\* A slip in the rendering loop: the buffer is rendered last pair first.
RECURSIVE render_temp_reversed(_)
render_temp_reversed(t) ==
    IF t = <<>> THEN <<>>
    ELSE render_temp_reversed(Tail(t)) \o render_pair(t[1][1], t[1][2])

\* The rendering loop of process_temp over the whole buffer.
RECURSIVE render_temp(_)
render_temp(t) ==
    IF t = <<>> THEN <<>>
    ELSE render_pair(t[1][1], t[1][2]) \o render_temp(Tail(t))

\* A slip in process_temp: clear_temp ignored, the buffer handed back whole.
process_temp_keeps(o, l, t, clear_temp) ==
    <<render_temp(Append(t, <<o, l>>)), Append(t, <<o, l>>)>>

\* process_temp: <<line_html, temp>>.
process_temp(o, l, t, clear_temp) ==
    LET appended == Append(t, <<o, l>>)
    IN <<render_temp(appended), IF clear_temp THEN <<>> ELSE appended>>

\* A slip in process_line: the text after the last newline is dropped.
process_line_no_remaining(text) ==
    IF HasNewline(text)
    THEN LET split_data == Split(text)
         IN [partial |-> <<>>,
             whole_lines |-> <<SubSeq(split_data, 1, Len(split_data) - 1)>>,
             remaining |-> <<>>]
    ELSE [partial |-> <<text>>, whole_lines |-> <<>>, remaining |-> <<>>]

\* process_line: partial and remaining are optional strings, whole_lines an
\* optional list of strings.
process_line(text) ==
    IF HasNewline(text)
    THEN LET split_data == Split(text)
             last == split_data[Len(split_data)]
         IN [partial |-> <<>>,
             whole_lines |-> <<SubSeq(split_data, 1, Len(split_data) - 1)>>,
             remaining |-> IF last # <<>> THEN <<last>> ELSE <<>>]
    ELSE [partial |-> <<text>>, whole_lines |-> <<>>, remaining |-> <<>>]

\* The f-string of one line div.
LineDiv(n, line_html) ==
    DivHead \o IntStr(n) \o SpanClose \o line_html \o DivClose

-----------------------------------------------------------------------------
(* Fetching a document.  The two HTTP requests and the formatters are the  *)
(* environment: a request either fails at the network level (requests      *)
(* raises) or answers with a status, a Content-Type header or none, and a  *)
(* body; the body is named by the content left after the Wayback footer    *)
(* and URLs are removed.  No call of the fetch has an exception handler    *)
(* around it, so whatever raises leaves process_diff.                      *)

\* Answers to requests.get(TOP_USERAGENTS_URL): the request fails at the
\* network level, or answers with a status and a body.  The body is a JSON
\* list of agents, the empty JSON list, or not JSON at all.
AgentBodies == {"list", "empty list", "not JSON"}

AgentReplies ==
    {[error |-> TRUE, status_code |-> 0, body |-> "not JSON"]}
    \cup {[error |-> FALSE, status_code |-> s, body |-> b] :
            s \in {200, 500}, b \in AgentBodies}

\* response.headers["Content-Type"]: a value, or no such header.
NoHeader == "no Content-Type header"

ContentTypes ==
    {"text/html", "text/html; charset=utf-8", "text/css",
     "application/javascript", "image/png"}

\* "text/html" in content_type: the name stands somewhere in the header.
Mentions(content_type, name) ==
    \/ content_type = name
    \/ content_type = "text/html; charset=utf-8" /\ name = "text/html"

\* Cleaned contents and their lengths: empty, shorter than 50, and two
\* different long ones, A whose markup has a <head> element and B whose
\* markup has none.
Contents == {"", "short", "A", "B"}

ContentLen(content) ==
    IF content = "" THEN 0 ELSE IF content = "short" THEN 10 ELSE 60

\* BeautifulSoup(content, "html.parser").head is an element, not None.
HasHead(content) == content = "A"

\* Answers to requests.get(url, ...): the network failure; the empty, the
\* short and the long body A under every status and header; and B, the page
\* without a <head>, served as html.
Replies ==
    {[error |-> TRUE, status_code |-> 0, content_type |-> NoHeader, text |-> ""]}
    \cup {[error |-> FALSE, status_code |-> s, content_type |-> t, text |-> c] :
            s \in {200, 403, 404, 500},
            t \in ContentTypes \cup {NoHeader},
            c \in Contents \ {"B"}}
    \cup {[error |-> FALSE, status_code |-> 200, content_type |-> "text/html",
           text |-> "B"]}

\* get_random_user_agent: the request, response.json() and random.randint
\* are made with no handler around them, so a network failure, a body that
\* is not JSON and an empty list (randint(0, -1)) all propagate.  A status
\* other than 200 gives the default agent, whatever the body.
get_random_user_agent(agent_reply) ==
    IF agent_reply.error THEN [raised |-> TRUE, value |-> None]
    ELSE IF agent_reply.status_code = 200
         THEN IF agent_reply.body = "list"
              THEN [raised |-> FALSE, value |-> "random agent"]
              ELSE [raised |-> TRUE, value |-> None]
         ELSE [raised |-> FALSE, value |-> "DEFAULT_USER_AGENT"]

\* clean_wayback_html: soup.head.find_all raises AttributeError when the
\* markup has no <head>; otherwise soup.prettify(), the markup laid out
\* anew, which then holds at least the head element and is not empty.
clean_wayback_html(content) ==
    IF HasHead(content)
    THEN [raised |-> FALSE, value |-> "prettified " \o content]
    ELSE [raised |-> TRUE, value |-> None]

\* cssbeautifier.beautify(content) and jsbeautifier.beautify(content): the
\* content laid out anew by the one formatter or the other.
formatted(file_type, content) == file_type \o " " \o content

\* beautify_file: [raised, value].  The document is named by the conversion
\* and the content it was made from; `blank` says the external css or js
\* formatter returned the empty string.  Any other file type raises
\* ValueError.
beautify_file(content, file_type, blank) ==
    IF file_type = "html" THEN clean_wayback_html(content)
    ELSE IF file_type \in {"css", "js"}
    THEN [raised |-> FALSE,
          value |-> IF blank THEN "" ELSE formatted(file_type, content)]
    ELSE [raised |-> TRUE, value |-> None]

\* html.escape(s): & < > " ' become character references.  The cleaned html
\* document has tags, so its escaped form is another string; the empty
\* string has nothing to escape.
html_escape(document) ==
    IF document = "" THEN "" ELSE "&lt;" \o document \o "&gt;"

\* The document holds "<" as written: css and js documents, which are not
\* escaped.
Unescaped(content) ==
    \E file_type \in {"css", "js"}, c \in Contents \ {""} :
        content = formatted(file_type, c)

\* fetch_and_beautify_content: [raised, value], value the document or None.
\* Only the html document is escaped; css and js documents are returned as
\* the formatter gave them.
fetch_and_beautify_content(agent_reply, response, blank) ==
    IF get_random_user_agent(agent_reply).raised
    THEN [raised |-> TRUE, value |-> None]
    ELSE IF response.error
    THEN [raised |-> TRUE, value |-> None]
    ELSE IF response.status_code = 200
    THEN IF response.content_type = NoHeader
         THEN [raised |-> TRUE, value |-> None]
         ELSE IF response.text = "" \/ ContentLen(response.text) < MinContentLen
         THEN [raised |-> FALSE, value |-> None]
         ELSE IF Mentions(response.content_type, "text/html")
         THEN LET cleaned == beautify_file(response.text, "html", blank)
              IN  IF cleaned.raised THEN cleaned
                  ELSE [raised |-> FALSE, value |-> html_escape(cleaned.value)]
         ELSE IF Mentions(response.content_type, "text/css")
         THEN beautify_file(response.text, "css", blank)
         ELSE IF Mentions(response.content_type, "application/javascript")
         THEN beautify_file(response.text, "js", blank)
         ELSE [raised |-> FALSE, value |-> None]
    ELSE [raised |-> FALSE, value |-> None]

\* What went wrong upstream in one fetch, for the record kept in `upstream`:
\* the first thing the code meets, in the order of its statements.
Failure(agent_reply, response) ==
    IF agent_reply.error THEN "network"
    ELSE IF get_random_user_agent(agent_reply).raised THEN "agent_body"
    ELSE IF response.error THEN "network"
    ELSE IF response.status_code # 200 THEN "status"
    ELSE IF response.content_type = NoHeader THEN "no_header"
    ELSE IF response.text = "" \/ ContentLen(response.text) < MinContentLen
    THEN "short"
    ELSE IF Mentions(response.content_type, "text/html")
    THEN IF HasHead(response.text) THEN "ok" ELSE "no_head"
    ELSE IF \/ Mentions(response.content_type, "text/css")
            \/ Mentions(response.content_type, "application/javascript")
    THEN "ok"
    ELSE "content_type"

\* Every way one call of fetch_and_beautify_content can end, over all answers
\* of the two requests and of the formatter: what it met and what it gave.
\* Both URLs are fetched through it (lines 390-391), so both draw from it.
FetchOutcomes ==
    {[failure |-> Failure(a, r), got |-> fetch_and_beautify_content(a, r, blank)] :
        a \in AgentReplies, r \in Replies, blank \in BOOLEAN}

\* Python truth of a document: neither None nor "".
HasDocument(content) == content # None /\ content # ""

\* A slip in the comparison: the test inverted.
same_content_inverted(c1, c2) == c1 # c2

\* "if content1 == content2"
same_content(c1, c2) == c1 = c2

-----------------------------------------------------------------------------
(* The operation streams the diff engine may return.                       *)

Kinds == {DIFF_EQUAL, DIFF_INSERT, DIFF_DELETE}

\* The concatenated texts of a stream: at most MaxChars characters.
Texts == UNION {[1..n -> Chars] : n \in 0..MaxChars}

\* Where each of n fragments ends in a text of `len` characters; a stream
\* of no operations has no text.
Cuts(n, len) ==
    IF n = 0 THEN (IF len = 0 THEN {<<>>} ELSE {})
    ELSE {c \in [1..n -> 0..len] :
            c[n] = len /\ \A i \in 1..(n - 1) : c[i] <= c[i + 1]}

\* The stream of n operations that cuts `text` at `cuts`, with kinds `kinds`.
RECURSIVE CutStream(_, _, _, _)
CutStream(n, text, cuts, kinds) ==
    IF n = 0 THEN <<>>
    ELSE Append(CutStream(n - 1, text, cuts, kinds),
                <<kinds[n],
                  SubSeq(text, IF n = 1 THEN 1 ELSE cuts[n - 1] + 1, cuts[n])>>)

\* [(EQUAL, "ab"), (INSERT, "c\n"), (EQUAL, "d")]
ExampleMixed ==
    << <<DIFF_EQUAL, <<"a", "b">> >>, <<DIFF_INSERT, <<"c", NL>> >>,
       <<DIFF_EQUAL, <<"d">> >> >>

\* [(INSERT, "x\ny\n")]
ExampleInsert == << <<DIFF_INSERT, <<"x", NL, "y", NL>> >> >>

\* The worked examples of the specification.
Examples == {ExampleMixed, ExampleInsert}

\* [(k1, "x"), (k2, "y"), (k3, "z\nw\n")] for all kinds k1, k2, k3.
PendingRuns ==
    {<< <<k1, <<"x">> >>, <<k2, <<"y">> >>, <<k3, <<"z", NL, "w", NL>> >> >> :
        k1 \in Kinds, k2 \in Kinds, k3 \in Kinds}

-----------------------------------------------------------------------------
(* The reassembly loop of process_diff.  The loop's locals are a record    *)
(* [temp, diff_content, line_number, line].                                *)

\* A slip in the loop: line_number is not advanced.
RECURSIVE whole_lines_loop_stuck(_, _, _)
whole_lines_loop_stuck(o, lines, st) ==
    IF lines = <<>> THEN st
    ELSE LET r == process_temp(o, Head(lines), st.temp, TRUE)
         IN whole_lines_loop_stuck(o, Tail(lines),
              [temp |-> r[2],
               diff_content |->
                   Append(st.diff_content, LineDiv(st.line_number, r[1])),
               line_number |-> st.line_number,
               line |-> <<Head(lines)>>])

\* "for line in whole_lines": one div per whole line, temp cleared each time.
RECURSIVE whole_lines_loop(_, _, _)
whole_lines_loop(o, lines, st) ==
    IF lines = <<>> THEN st
    ELSE LET r == process_temp(o, Head(lines), st.temp, TRUE)
         IN whole_lines_loop(o, Tail(lines),
              [temp |-> r[2],
               diff_content |->
                   Append(st.diff_content, LineDiv(st.line_number, r[1])),
               line_number |-> st.line_number + 1,
               line |-> <<Head(lines)>>])

\* The body of "for op, data in diffs".
loop_body(o, data, st) ==
    LET pl == process_line(data)
        s1 == IF Truthy(pl.partial)
              THEN [st EXCEPT !.temp = Append(@, <<o, pl.partial[1]>>)]
              ELSE IF Truthy(pl.whole_lines)
              THEN whole_lines_loop(o, pl.whole_lines[1], st)
              ELSE st
    IN IF Truthy(pl.remaining)
       THEN [s1 EXCEPT !.temp = Append(@, <<o, pl.remaining[1]>>)]
       ELSE s1

-----------------------------------------------------------------------------
(* The state machine.                                                      *)
(*   pc           where process_diff is: "fetch1", "fetch2", "compare",    *)
(*                "loop", "done" (returned), "raised" (left by exception)  *)
(*   upstream     what went wrong in each fetch made so far                *)
(*   content1/2   the fetched documents                                    *)
(*   ran          which of "diff_main" and "reassembly" have run           *)
(*   diffs, idx   the operation stream and the loop's position in it       *)
(*   op, line     the loop variables, <<>> while unbound                   *)
(*   temp, diff_content, line_number   the loop's locals                   *)
(*   html         the page, <<>> while unbound                              *)
(*   result       the value returned                                       *)
(*   first        the earlier call's run of the engine and the reassembly, *)
(*                <<>> when there was none                                 *)
(*   sidebar      the markers the page's script has drawn, <<>> while the  *)
(*                page has not been loaded                                 *)

Init ==
    /\ pc = "fetch1"
    /\ upstream = <<>>
    /\ content1 = None
    /\ content2 = None
    /\ ran = {}
    /\ diffs = <<>>
    /\ idx = 0
    /\ op = <<>>
    /\ line = <<>>
    /\ temp = <<>>
    /\ diff_content = <<>>
    /\ line_number = 0
    /\ html = <<>>
    /\ result = "not returned"
    /\ form = <<>>
    /\ args = <<>>
    /\ outcomes = <<>>
    /\ first = <<>>
    /\ sidebar = <<>>

\* content1 = fetch_and_beautify_content(url1)
Fetch1 ==
    /\ pc = "fetch1"
    /\ \E fetched \in FetchOutcomes :
         /\ upstream' = Append(upstream, fetched.failure)
         /\ pc' = IF fetched.got.raised THEN "raised" ELSE "fetch2"
         /\ content1' = fetched.got.value
    /\ UNCHANGED <<content2, ran, diffs, idx, op, line, temp, diff_content,
                   line_number, html, result>>
    /\ UNCHANGED <<form, args, outcomes, first, sidebar>>

\* content2 = fetch_and_beautify_content(url2)
Fetch2 ==
    /\ pc = "fetch2"
    /\ \E fetched \in FetchOutcomes :
         /\ upstream' = Append(upstream, fetched.failure)
         /\ pc' = IF fetched.got.raised THEN "raised" ELSE "compare"
         /\ content2' = fetched.got.value
    /\ UNCHANGED <<content1, ran, diffs, idx, op, line, temp, diff_content,
                   line_number, html, result>>
    /\ UNCHANGED <<form, args, outcomes, first, sidebar>>

\* else: return None
NoDocument ==
    /\ pc = "compare"
    /\ ~(HasDocument(content1) /\ HasDocument(content2))
    /\ result' = None
    /\ pc' = "done"
    /\ UNCHANGED <<upstream, content1, content2, ran, diffs, idx, op, line,
                   temp, diff_content, line_number, html>>
    /\ UNCHANGED <<form, args, outcomes, first, sidebar>>

\* if content1 == content2: return "SAME CONTENT"
SameContent ==
    /\ pc = "compare"
    /\ HasDocument(content1) /\ HasDocument(content2)
    /\ same_content(content1, content2)
    /\ result' = SAME_CONTENT
    /\ pc' = "done"
    /\ UNCHANGED <<upstream, content1, content2, ran, diffs, idx, op, line,
                   temp, diff_content, line_number, html>>
    /\ UNCHANGED <<form, args, outcomes, first, sidebar>>

\* A slip in the locals: the line counter lives on from one call of
\* process_diff to the next, which goes on counting where the first stopped.
DiffMain_counter_kept(d) ==
    /\ pc = "compare"
    /\ HasDocument(content1) /\ HasDocument(content2)
    /\ ~same_content(content1, content2)
    /\ diffs' = d
    /\ ran' = ran \cup {"diff_main"}
    /\ diff_content' = <<>>
    /\ line_number' = IF first # <<>>
                      THEN 1 + Len(first[1].diff_content)
                      ELSE 1
    /\ temp' = <<>>
    /\ idx' = 1
    /\ pc' = "loop"
    /\ UNCHANGED <<upstream, content1, content2, op, line, html, result>>
    /\ UNCHANGED <<form, args, outcomes, first, sidebar>>

\* diffs = dmp.diff_main(...); diff_cleanupSemantic; the loop's locals.
DiffMain(d) ==
    /\ pc = "compare"
    /\ HasDocument(content1) /\ HasDocument(content2)
    /\ ~same_content(content1, content2)
    /\ diffs' = d
    /\ ran' = ran \cup {"diff_main"}
    /\ diff_content' = <<>>
    /\ line_number' = 1
    /\ temp' = <<>>
    /\ idx' = 1
    /\ pc' = "loop"
    /\ UNCHANGED <<upstream, content1, content2, op, line, html, result>>
    /\ UNCHANGED <<form, args, outcomes, first, sidebar>>

\* What a long page and a long style sheet are fetched as (lines 247-251).
Page == html_escape(clean_wayback_html("A").value)

Sheet == formatted("css", "A")

\* What a long script is fetched as (line 254).
Script == formatted("js", "A")

\* The engine returns any stream of at most MaxOps operations and MaxChars
\* characters.
DiffAny ==
    /\ pc = "compare"
    /\ \E n \in 0..MaxOps, text \in Texts :
         \E cuts \in Cuts(n, Len(text)), kinds \in [1..n -> Kinds] :
             DiffMain(CutStream(n, text, cuts, kinds))

\* The engine returns one of the worked examples.
DiffExample == \E d \in Examples : DiffMain(d)

\* The engine returns three operations of any kinds, the third of which
\* closes two lines: the first line closes with two pairs pending.
DiffPending ==
    /\ pc = "compare"
    /\ \E d \in PendingRuns : DiffMain(d)

\* One iteration of "for op, data in diffs".
LoopStep ==
    /\ pc = "loop"
    /\ idx <= Len(diffs)
    /\ LET st == loop_body(diffs[idx][1], diffs[idx][2],
                           [temp |-> temp, diff_content |-> diff_content,
                            line_number |-> line_number, line |-> line])
       IN /\ temp' = st.temp
          /\ diff_content' = st.diff_content
          /\ line_number' = st.line_number
          /\ line' = st.line
    /\ op' = <<diffs[idx][1]>>
    /\ idx' = idx + 1
    /\ ran' = ran \cup {"reassembly"}
    /\ UNCHANGED <<pc, upstream, content1, content2, diffs, html, result>>
    /\ UNCHANGED <<form, args, outcomes, first, sidebar>>

\* A slip in the template: the placeholder of diff_content stands in the
\* sidebar as well.
HTML_CODE_format_twice(css_code, js_code, diff_content_html) ==
    <<"\n", "    <html>\n", "      <head>\n",
      "        <meta charset=\"UTF-8\">\n",
      "        <meta name=\"viewport\" content=\"width=device-width, initial-scale=1.0\">\n",
      "        <title>Diff Viewer</title>\n",
      "        <style>", css_code, "</style>\n",
      "      </head>\n", "      <body>\n",
      "        <div id=\"diff-container\">">>
    \o diff_content_html
    \o <<"</div>\n", "        <div id=\"sidebar\">">>
    \o diff_content_html
    \o <<"</div>\n",
          "        <script>", js_code, "</script>\n",
          "      </body>\n", "    </html>\n">>

\* HTML_CODE.format(css_code=..., js_code=..., diff_content=...).  The page
\* is a sequence: each piece of the template between two placeholders and
\* line ends is one element, the style sheet and the script are one element
\* each (neither holds a div tag), and diff_content goes in character by
\* character.
HTML_CODE_format(css_code, js_code, diff_content_html) ==
    <<"\n", "    <html>\n", "      <head>\n",
      "        <meta charset=\"UTF-8\">\n",
      "        <meta name=\"viewport\" content=\"width=device-width, initial-scale=1.0\">\n",
      "        <title>Diff Viewer</title>\n",
      "        <style>", css_code, "</style>\n",
      "      </head>\n", "      <body>\n",
      "        <div id=\"diff-container\">">>
    \o diff_content_html
    \o <<"</div>\n", "        <div id=\"sidebar\"></div>\n",
          "        <script>", js_code, "</script>\n",
          "      </body>\n", "    </html>\n">>

\* "Clean up any remaining" reads an unbound `line`: UnboundLocalError.
FlushRaises == Len(temp) > 0 /\ line = <<>>

\* The final flush: process_temp(op, line, temp, clear_temp=True).
flush(o, l, st) ==
    IF Len(st.temp) > 0
    THEN LET r == process_temp(o[1], l[1], st.temp, TRUE)
         IN [temp |-> r[2],
             diff_content |->
                 Append(st.diff_content, LineDiv(st.line_number, r[1]))]
    ELSE [temp |-> st.temp, diff_content |-> st.diff_content]

\* After the loop: the flush, the join, the page, the return.
Finish ==
    /\ pc = "loop"
    /\ idx > Len(diffs)
    /\ ran' = ran \cup {"reassembly"}
    /\ IF FlushRaises
       THEN /\ pc' = "raised"
            /\ UNCHANGED <<temp, diff_content, html, result>>
       ELSE LET st == flush(op, line, [temp |-> temp, diff_content |-> diff_content,
                                       line_number |-> line_number])
            IN /\ temp' = st.temp
               /\ diff_content' = st.diff_content
               /\ html' = <<HTML_CODE_format("CSS_CODE", "JS_CODE",
                                            Join(st.diff_content, <<NL>>))>>
               /\ result' = "html"
               /\ pc' = "done"
    /\ UNCHANGED <<upstream, content1, content2, diffs, idx, op, line,
                   line_number>>
    /\ UNCHANGED <<form, args, outcomes, first, sidebar>>

Next ==
    \/ Fetch1
    \/ Fetch2
    \/ NoDocument
    \/ SameContent
    \/ DiffAny
    \/ DiffExample
    \/ DiffPending
    \/ LoopStep
    \/ Finish

Spec == Init /\ [][Next]_vars

-----------------------------------------------------------------------------
(* Malformed streams: an operation may carry a kind that is none of the    *)
(* three.  process_diff is the same; only what the engine hands over       *)
(* differs.                                                                *)

\* Kinds that are none of DIFF_EQUAL, DIFF_INSERT, DIFF_DELETE.
OtherKinds == {2}

\* The texts of the malformed streams: letters and newlines.
PlainTexts == UNION {[1..n -> {"a", NL}] : n \in 0..MaxChars}

\* The engine returns a stream with at least one operation of unknown kind.
DiffMalformed ==
    /\ pc = "compare"
    /\ \E n \in 1..MaxOps, text \in PlainTexts :
         \E cuts \in Cuts(n, Len(text)), kinds \in [1..n -> Kinds \cup OtherKinds] :
             /\ \E i \in 1..n : kinds[i] \in OtherKinds
             /\ DiffMain(CutStream(n, text, cuts, kinds))

NextMalformed ==
    \/ Fetch1
    \/ Fetch2
    \/ NoDocument
    \/ SameContent
    \/ DiffMalformed
    \/ LoopStep
    \/ Finish

SpecMalformed == Init /\ [][NextMalformed]_vars

-----------------------------------------------------------------------------
(* Two calls.  After process_diff has returned or raised it is called     *)
(* again: a new frame in which nothing is bound, and both documents are    *)
(* fetched again, so the second call may end in any way the first may.     *)
(* The engine is deterministic: asked for the documents of the first call  *)
(* it returns the stream of the first call.                                *)

\* The engine returns any stream of letters and newlines, for documents it
\* was not asked about before.
DiffPlain ==
    /\ pc = "compare"
    /\ first = <<>>
    /\ \E n \in 0..MaxOps, text \in PlainTexts :
         \E cuts \in Cuts(n, Len(text)), kinds \in [1..n -> Kinds] :
             DiffMain(CutStream(n, text, cuts, kinds))

\* What a call that reached the engine leaves for the next call to be
\* compared with: the documents, the stream and the reassembly's outcome.
RunOf(c1, c2, d, raised, records) ==
    [content1 |-> c1, content2 |-> c2, diffs |-> d, raised |-> raised,
     diff_content |-> records]

\* process_diff is called again: a new frame, in which nothing is bound.
Reinvoke ==
    /\ pc \in {"done", "raised"}
    /\ "rerun" \notin ran
    /\ first' = IF "diff_main" \in ran
                THEN <<RunOf(content1, content2, diffs, pc = "raised",
                             diff_content)>>
                ELSE <<>>
    /\ pc' = "fetch1"
    /\ ran' = {"rerun"}
    /\ upstream' = <<>>
    /\ content1' = None
    /\ content2' = None
    /\ diffs' = <<>>
    /\ idx' = 0
    /\ op' = <<>>
    /\ line' = <<>>
    /\ temp' = <<>>
    /\ diff_content' = <<>>
    /\ line_number' = 0
    /\ html' = <<>>
    /\ result' = "not returned"
    /\ UNCHANGED <<form, args, outcomes, sidebar>>

\* The documents are those of the first call.
SameDocuments ==
    /\ first # <<>>
    /\ content1 = first[1].content1
    /\ content2 = first[1].content2

\* In the second call, on the documents of the first, the engine returns the
\* stream of the first.
DiffSame ==
    /\ pc = "compare"
    /\ SameDocuments
    /\ DiffMain(first[1].diffs)

\* In the second call, on other documents, the engine returns another
\* stream.
DiffOther ==
    /\ pc = "compare"
    /\ first # <<>>
    /\ ~SameDocuments
    /\ \E d \in Examples : DiffMain(d)

NextTwice ==
    \/ Fetch1
    \/ Fetch2
    \/ NoDocument
    \/ SameContent
    \/ DiffPlain
    \/ LoopStep
    \/ Finish
    \/ Reinvoke
    \/ DiffSame
    \/ DiffOther

SpecTwice == Init /\ [][NextTwice]_vars

-----------------------------------------------------------------------------
(* Text with markup of its own.  An html document is escaped before it is  *)
(* diffed (html.escape, line 248), a style sheet and a script are not      *)
(* (lines 251 and 254), so their fragments can hold tags.  process_diff is *)
(* the same; only what the engine hands over differs.                      *)

\* Tags a style sheet or a script can hold in its text.
MarkupTexts ==
    {<<"<", "b", "/", "c", "l", "a", "s", "s", "=", "\"", "a", "d", "d", "e", "d", "\"", ">">>,
     <<"<", "b", "/", "c", "l", "a", "s", "s", "=", "\"", "d", "e", "l", "e", "t", "e", "d", "\"", ">">>,
     <<"<", "s", "p", "a", "n", " ", "c", "l", "a", "s", "s", "=", "\"", "a", "d", "d", "e", "d", "\"", ">">>,
     <<"<", "s", "c", "r", "i", "p", "t", ">">>,
     <<"<", "!", "-", "-">>,
     <<"<", "t", "e", "x", "t", "a", "r", "e", "a", ">">>,
     <<"<", "/", "d", "i", "v", ">">>}

\* What follows the tag in its fragment.
MarkupTails == {<<>>, <<"a">>, <<NL>>, <<"a", NL>>}

\* The fragment of the operation after it.
MarkupNext == {<<"a">>, <<NL>>, <<"a", NL>>}

\* A fragment with "<" in it stands in a document that was not escaped: the
\* first document for a deletion, the second for an insertion, both for an
\* equality.
HoldsMarkup(kind) ==
    /\ kind # DIFF_INSERT => Unescaped(content1)
    /\ kind # DIFF_DELETE => Unescaped(content2)

\* The engine returns a stream whose first fragment starts with a tag.
DiffMarkup ==
    /\ pc = "compare"
    /\ \E m \in MarkupTexts, tail \in MarkupTails, k1 \in Kinds :
         /\ HoldsMarkup(k1)
         /\ \/ DiffMain(<< <<k1, m \o tail>> >>)
            \/ \E k2 \in Kinds, t2 \in MarkupNext :
                  DiffMain(<< <<k1, m \o tail>>, <<k2, t2>> >>)

-----------------------------------------------------------------------------
(* The browser.  The page's script asks the browser for the elements of    *)
(* class line in the diff container and, in each, for an element of class  *)
(* added and one of class deleted.  The browser is not part of the         *)
(* program: what it answers is an input of the script, as the replies of   *)
(* the servers are inputs of the fetch.  For the pages this model makes    *)
(* (text of lower-case letters and blanks, with at most one of the tags of *)
(* MarkupTexts at the start of the first fragment) the answer is the one   *)
(* the HTML parser gives, read below; for any other page the model leaves  *)
(* the answer open.                                                        *)

Letters ==
    {"a", "b", "c", "d", "e", "f", "g", "h", "i", "j", "k", "l", "m", "n",
     "o", "p", "q", "r", "s", "t", "u", "v", "w", "x", "y", "z"}

Blank == {" ", "\t", NL}

\* Text the reading below covers.
KnownText(text) == \A i \in 1..Len(text) : text[i] \in Letters \cup Blank

\* Streams the reading below covers.
KnownStream(d) ==
    \/ d = <<>>
    \/ /\ \A i \in 2..Len(d) : KnownText(d[i][2])
       /\ \/ KnownText(d[1][2])
          \/ \E m \in MarkupTexts :
                /\ StartsWith(d[1][2], m)
                /\ KnownText(Drop(d[1][2], Len(m)))

\* Elements whose content the parser reads as text up to their end tag.
RawTextNames ==
    {<<"s", "c", "r", "i", "p", "t">>,
     <<"s", "t", "y", "l", "e">>,
     <<"t", "e", "x", "t", "a", "r", "e", "a">>,
     <<"t", "i", "t", "l", "e">>,
     <<"x", "m", "p">>,
     <<"i", "f", "r", "a", "m", "e">>,
     <<"n", "o", "e", "m", "b", "e", "d">>,
     <<"n", "o", "f", "r", "a", "m", "e", "s">>}

CommentOpen == <<"<", "!", "-", "-">>

CommentClose == <<"-", "-", ">">>

ClassAttr == <<"c", "l", "a", "s", "s", "=", "\"">>

\* The least of a non-empty set of positions.
Least(positions) == CHOOSE p \in positions : \A q \in positions : p <= q

\* The first position from i on where a character of cs stands, or
\* Len(s) + 1.
NextOf(s, i, cs) ==
    LET hits == {j \in i..Len(s) : s[j] \in cs}
    IN IF hits = {} THEN Len(s) + 1 ELSE Least(hits)

\* The first position from i on where sub stands, or Len(s) + 1.
NextAt(s, i, sub) ==
    LET hits == {j \in i..Len(s) : At(s, j, sub)}
    IN IF hits = {} THEN Len(s) + 1 ELSE Least(hits)

\* The ">" that ends the tag read from i on: the first one outside a quoted
\* attribute value; Len(s) + 1 if the tag is not ended.
RECURSIVE TagEnd(_, _, _)
TagEnd(s, i, quoted) ==
    IF i > Len(s) THEN Len(s) + 1
    ELSE IF s[i] = "\"" THEN TagEnd(s, i + 1, ~quoted)
    ELSE IF s[i] = ">" /\ ~quoted THEN i
    ELSE TagEnd(s, i + 1, quoted)

\* The tag name that starts at i.
TagName(s, i) == SubSeq(s, i, NextOf(s, i, Blank \cup {"/", ">"}) - 1)

\* The value of the class attribute of the tag that runs from i to e, <<>>
\* if it has none.  Attributes start where the tag name ends.
ClassValue(s, i, e) ==
    LET last == IF e > Len(s) THEN Len(s) ELSE e
        from == NextOf(s, i + 1, Blank \cup {"/", ">"})
        at == NextAt(SubSeq(s, 1, last), from + 1, ClassAttr)
    IN IF at > last \/ s[at - 1] \notin Blank \cup {"/", "\""} THEN <<>>
       ELSE SubSeq(s, at + Len(ClassAttr),
                   NextOf(s, at + Len(ClassAttr), {"\""}) - 1)

\* The characters of a class name the script selects by.
SelectorChars(name) ==
    IF name = "line" THEN <<"l", "i", "n", "e">> ELSE ClassChars(name)

\* The class attribute names the class among its blank-separated names.
HasClass(value, name) ==
    \E a \in 1..Len(value) :
        /\ At(value, a, SelectorChars(name))
        /\ (a = 1 \/ value[a - 1] \in Blank)
        /\ (a + Len(SelectorChars(name)) > Len(value)
            \/ value[a + Len(SelectorChars(name))] \in Blank)

\* What the parser has built: the open divs (0 the diff container, k the
\* k-th line div, -1 any other div), for each line div whether it stands in
\* the container, the classes found under each line div, and whether the
\* rest of the page was swallowed by an element or comment left open.
DomStart == [stack |-> <<0>>, lines |-> <<>>, marks |-> {}, swallowed |-> FALSE]

\* A start tag: the element is a descendant of every open line div; a div
\* is opened.
dom_open(st, name, value) ==
    LET under == {st.stack[n] : n \in 1..Len(st.stack)} \ {0, -1}
        found == {c \in {"added", "deleted"} : HasClass(value, c)}
        st1 == [st EXCEPT !.marks = @ \cup (under \X found)]
    IN IF name # <<"d", "i", "v">> THEN st1
       ELSE IF HasClass(value, "line")
       THEN [st1 EXCEPT !.lines = Append(@, \E n \in 1..Len(st.stack) :
                                               st.stack[n] = 0),
                        !.stack = Append(@, Len(st.lines) + 1)]
       ELSE [st1 EXCEPT !.stack = Append(@, -1)]

\* An end tag: "</div>" closes the innermost open div, if there is one.
dom_close(st, name) ==
    IF name = <<"d", "i", "v">> /\ st.stack # <<>>
    THEN [st EXCEPT !.stack = SubSeq(@, 1, Len(@) - 1)]
    ELSE st

\* The parser, reading s from i on.
RECURSIVE dom_scan(_, _, _)
dom_scan(s, i, st) ==
    LET p == NextOf(s, i, {"<"})
    IN IF p > Len(s) THEN st
       ELSE IF At(s, p, CommentOpen)
       THEN LET q == NextAt(s, p + Len(CommentOpen), CommentClose)
            IN IF q > Len(s) THEN [st EXCEPT !.swallowed = TRUE]
               ELSE dom_scan(s, q + Len(CommentClose), st)
       ELSE IF p + 1 <= Len(s) /\ s[p + 1] \in Letters
       THEN LET e == TagEnd(s, p, FALSE)
                name == TagName(s, p + 1)
                st1 == dom_open(st, name, ClassValue(s, p, e))
            IN IF name \in RawTextNames
               THEN LET q == NextAt(s, e + 1, <<"<", "/">> \o name)
                    IN IF q > Len(s) THEN [st1 EXCEPT !.swallowed = TRUE]
                       ELSE dom_scan(s, TagEnd(s, q, FALSE) + 1, st1)
               ELSE dom_scan(s, e + 1, st1)
       ELSE IF p + 2 <= Len(s) /\ s[p + 1] = "/" /\ s[p + 2] \in Letters
       THEN dom_scan(s, TagEnd(s, p, FALSE) + 1,
                     dom_close(st, TagName(s, p + 2)))
       ELSE dom_scan(s, p + 1, st)

\* What the browser finds in a page of these records: for each element of
\* class line in the diff container, in document order, whether it has a
\* descendant of class added and one of class deleted; nothing when the
\* script element of the page was swallowed, for then the script never runs.
browser_finds(records) ==
    LET dom == dom_scan(Join(records, <<NL>>), 1, DomStart)
        shown == SelectSeq([k \in 1..Len(dom.lines) |->
                               IF dom.lines[k] THEN k ELSE 0],
                           LAMBDA k : k # 0)
    IN IF dom.swallowed THEN <<>>
       ELSE [n \in 1..Len(shown) |->
                [added |-> <<shown[n], "added">> \in dom.marks,
                 deleted |-> <<shown[n], "deleted">> \in dom.marks]]

\* Any answer: any number of line elements, each with or without a span of
\* either class.  Text with markup of its own can add line elements, so
\* their number is not bounded by that of the records.
AnyFound == Seq([added : BOOLEAN, deleted : BOOLEAN])

\* The answers the browser may give the script for the page made from the
\* stream d with these records: what it finds, for the streams whose text
\* is read here, and any answer for every other.
BrowserAnswers(d, records) ==
    IF KnownStream(d) THEN {browser_finds(records)}
    ELSE AnyFound

\* The background colour the script gives a marker, from what the two
\* selectors found.
color_of(added, deleted) ==
    IF added /\ deleted THEN "orange"
    ELSE IF added THEN "green"
    ELSE IF deleted THEN "red"
    ELSE "transparent"

-----------------------------------------------------------------------------
(* main of src/src/main.py, from the comparison form on.  One run of the   *)
(* script: the form is read, process_diff is called if the form asks for   *)
(* it, and its result is shown.  An exception raised in process_diff or in *)
(* save_file is not caught in main: the run ends there ("raised",          *)
(* "main_raised").  A page that was shown is loaded by a browser, and its   *)
(* script draws the sidebar.                                               *)
(*   form      the values read from the form, <<>> before it is read       *)
(*   args      the arguments process_diff was called with, <<>> if not     *)
(*             called                                                      *)
(*   outcomes  what main has done with the result, in order: pairs of      *)
(*             the function called and the value handed to it              *)

\* What the two text inputs may hold.
CurrentUrls == {"", "https://example.com/"}

HistoricalUrls == {"", "https://web.archive.org/web/2024/https://example.com/"}

\* The choices of the radio button.
ViewOptions == {"View inline", "Open in new window"}

\* display_option = "inline" if view_option == "View inline" else "new window"
display_option(view_option) ==
    IF view_option = "View inline" THEN "inline" ELSE "new window"

\* Python truth of what process_diff returns: None is false, the sentinel
\* and the page are non-empty strings.
ResultTruthy(r) == r # None

\* The script starts: nothing read, nothing called.
InitMain ==
    /\ pc = "main"
    /\ upstream = <<>>
    /\ content1 = None
    /\ content2 = None
    /\ ran = {}
    /\ diffs = <<>>
    /\ idx = 0
    /\ op = <<>>
    /\ line = <<>>
    /\ temp = <<>>
    /\ diff_content = <<>>
    /\ line_number = 0
    /\ html = <<>>
    /\ result = "not returned"
    /\ form = <<>>
    /\ args = <<>>
    /\ outcomes = <<>>
    /\ first = <<>>
    /\ sidebar = <<>>

\* The form is read and tested; process_diff(historical_url, current_url)
\* is entered if the test passes, and the run is over if it does not.
ReadForm ==
    /\ pc = "main"
    /\ \E diff_submitted \in BOOLEAN, current_url \in CurrentUrls,
          historical_url \in HistoricalUrls, view_option \in ViewOptions :
         /\ form' = <<[diff_submitted |-> diff_submitted,
                       current_url |-> current_url,
                       historical_url |-> historical_url,
                       view_option |-> view_option]>>
         /\ IF diff_submitted /\ current_url # "" /\ historical_url # ""
            THEN /\ args' = <<historical_url, current_url>>
                 /\ pc' = "fetch1"
            ELSE /\ args' = args
                 /\ pc' = "main_end"
    /\ UNCHANGED <<upstream, content1, content2, ran, diffs, idx, op, line,
                   temp, diff_content, line_number, html, result, outcomes,
                   first, sidebar>>

\* save_file(html): open("diff.html", "w") and f.write(html) are made with
\* no handler around them, in save_file or in main.  `written` says they went
\* through: the file can be opened for writing and the locale's encoding
\* has every character of the page.
save_file(page, written) ==
    IF written THEN [raised |-> FALSE, value |-> "file_location"]
    ELSE [raised |-> TRUE, value |-> None]

\* "if html:" and its branches, after process_diff has returned to main.  An
\* exception raised in save_file leaves main before the browser is opened.
ShowResult ==
    /\ pc = "done"
    /\ args # <<>>
    /\ IF ResultTruthy(result)
       THEN IF result = SAME_CONTENT
            THEN /\ outcomes' = Append(outcomes, <<"st.success", "message">>)
                 /\ pc' = "main_end"
            ELSE IF display_option(form[1].view_option) = "new window"
            THEN \E written \in BOOLEAN :
                   /\ outcomes' = Append(outcomes, <<"save_file", result>>)
                   /\ pc' = IF save_file(result, written).raised
                            THEN "main_raised" ELSE "main_open"
            ELSE /\ outcomes' = Append(outcomes, <<"components.html", result>>)
                 /\ pc' = "main_end"
       ELSE /\ outcomes' = Append(outcomes, <<"st.error", "message">>)
            /\ pc' = "main_end"
    /\ UNCHANGED <<upstream, content1, content2, ran, diffs, idx, op, line,
                   temp, diff_content, line_number, html, result, form, args,
                   first, sidebar>>

\* webbrowser.open_new_tab(file_location)
OpenNewTab ==
    /\ pc = "main_open"
    /\ outcomes' = Append(outcomes, <<"webbrowser.open_new_tab", "file_location">>)
    /\ pc' = "main_end"
    /\ UNCHANGED <<upstream, content1, content2, ran, diffs, idx, op, line,
                   temp, diff_content, line_number, html, result, form, args,
                   first, sidebar>>

\* The page has been handed to a browser: shown inline, or opened in a new
\* tab from the file.
PageShown ==
    /\ pc = "main_end"
    /\ outcomes # <<>>
    /\ outcomes[Len(outcomes)][1] \in {"components.html", "webbrowser.open_new_tab"}

\* The browser has parsed the page and the script's listener runs: one
\* marker for each line the browser found, coloured by what it found in it.
DOMContentLoaded ==
    /\ PageShown
    /\ sidebar = <<>>
    /\ \E found \in BrowserAnswers(diffs, diff_content) :
         sidebar' = << [k \in 1..Len(found) |->
                          color_of(found[k].added, found[k].deleted)] >>
    /\ UNCHANGED <<pc, upstream, content1, content2, ran, diffs, idx, op, line,
                   temp, diff_content, line_number, html, result, form, args,
                   outcomes, first>>

NextMain ==
    \/ ReadForm
    \/ Fetch1
    \/ Fetch2
    \/ NoDocument
    \/ SameContent
    \/ DiffPlain
    \/ LoopStep
    \/ Finish
    \/ ShowResult
    \/ OpenNewTab
    \/ DOMContentLoaded

SpecMain == InitMain /\ [][NextMain]_vars

\* main on documents whose text holds tags.
NextMarkup ==
    \/ ReadForm
    \/ Fetch1
    \/ Fetch2
    \/ NoDocument
    \/ SameContent
    \/ DiffMarkup
    \/ LoopStep
    \/ Finish
    \/ ShowResult
    \/ OpenNewTab
    \/ DOMContentLoaded

SpecMarkup == InitMain /\ [][NextMarkup]_vars

-----------------------------------------------------------------------------
(* The reassembly as one function of the stream: the loop over all the     *)
(* operations, then the flush.                                             *)

\* "for op, data in diffs" from the locals `st` on.
RECURSIVE run_loop(_, _)
run_loop(d, st) ==
    IF d = <<>> THEN st
    ELSE run_loop(Tail(d), loop_body(d[1][1], d[1][2], st))

\* Lines 404-441 on the stream d: whether they raise, and the records.
reassemble(d) ==
    LET st == run_loop(d, [temp |-> <<>>, diff_content |-> <<>>,
                           line_number |-> 1, line |-> <<>>])
        o == IF d = <<>> THEN <<>> ELSE <<d[Len(d)][1]>>
    IN IF Len(st.temp) > 0 /\ st.line = <<>>
       THEN [raised |-> TRUE, diff_content |-> st.diff_content]
       ELSE [raised |-> FALSE,
             diff_content |-> flush(o, st.line, st).diff_content]

-----------------------------------------------------------------------------
(* Reading the output back: what a line div says, and what the input asks  *)
(* for.  These are used by the properties only.                            *)

IsDigit(c) == \E d \in 0..9 : DigitChar(d) = c

DigitValue(c) == CHOOSE d \in 0..9 : DigitChar(d) = c

\* How many digits follow the div's head.
RECURSIVE DigitRun(_)
DigitRun(s) ==
    IF s # <<>> /\ IsDigit(Head(s)) THEN 1 + DigitRun(Tail(s)) ELSE 0

RECURSIVE DecimalValue(_)
DecimalValue(digits) ==
    IF digits = <<>> THEN 0
    ELSE 10 * DecimalValue(SubSeq(digits, 1, Len(digits) - 1))
         + DigitValue(digits[Len(digits)])

\* The line number a div shows.
LineNumOf(div) ==
    DecimalValue(SubSeq(Drop(div, Len(DivHead)), 1,
                        DigitRun(Drop(div, Len(DivHead)))))

\* The markup a div holds: what stands between the label and "</div>".
MarkupOf(div) ==
    SubSeq(div,
           Len(DivHead) + DigitRun(Drop(div, Len(DivHead))) + Len(SpanClose) + 1,
           Len(div) - Len(DivClose))

OpenAdded == SpanOpenHead \o <<"a", "d", "d", "e", "d">> \o SpanOpenTail

OpenDeleted == SpanOpenHead \o <<"d", "e", "l", "e", "t", "e", "d">> \o SpanOpenTail

\* The characters a browser shows for a markup, each with the class of the
\* span it stands in ("none" outside any span); "&nbsp;" reads as a space.
RECURSIVE Classify(_, _)
Classify(m, cls) ==
    IF m = <<>> THEN <<>>
    ELSE IF StartsWith(m, SpanClose) THEN Classify(Drop(m, Len(SpanClose)), "none")
    ELSE IF StartsWith(m, OpenAdded) THEN Classify(Drop(m, Len(OpenAdded)), "added")
    ELSE IF StartsWith(m, OpenDeleted)
    THEN Classify(Drop(m, Len(OpenDeleted)), "deleted")
    ELSE IF StartsWith(m, NBSP)
    THEN << <<" ", cls>> >> \o Classify(Drop(m, Len(NBSP)), cls)
    ELSE << <<Head(m), cls>> >> \o Classify(Tail(m), cls)

\* The shown characters alone: spans stripped, escaping undone.
Destyle(m) == [i \in 1..Len(Classify(m, "none")) |-> Classify(m, "none")[i][1]]

\* The class the specification gives a kind.
ClassOfKind(k) ==
    IF k = DIFF_INSERT THEN "added"
    ELSE IF k = DIFF_DELETE THEN "deleted"
    ELSE "none"

\* The characters of a fragment as they are shown (a tab as four spaces),
\* each with the class of its operation's kind.
RECURSIVE TagFragment(_, _)
TagFragment(k, f) ==
    IF f = <<>> THEN <<>>
    ELSE (IF Head(f) = "\t"
          THEN [i \in 1..4 |-> <<" ", ClassOfKind(k)>>]
          ELSE << <<Head(f), ClassOfKind(k)>> >>)
         \o TagFragment(k, Tail(f))

RECURSIVE TagPairs(_)
TagPairs(d) ==
    IF d = <<>> THEN <<>>
    ELSE TagFragment(d[1][1], d[1][2]) \o TagPairs(Tail(d))

\* The tagged characters of a stream cut at the newlines: one entry per
\* line, the last being what follows the last newline.
RECURSIVE TaggedLines(_)
TaggedLines(t) ==
    IF t = <<>> THEN << <<>> >>
    ELSE LET rest == TaggedLines(Tail(t))
         IN IF Head(t)[1] = NL THEN << <<>> >> \o rest
            ELSE << <<Head(t)>> \o Head(rest) >> \o Tail(rest)

\* The concatenation of all fragments of a stream.
RECURSIVE Concat(_)
Concat(d) == IF d = <<>> THEN <<>> ELSE d[1][2] \o Concat(Tail(d))

Newlines(text) == Cardinality({i \in 1..Len(text) : text[i] = NL})

\* The text as shown: every tab as four spaces.
Shown(text) == Replace(text, "\t", <<" ", " ", " ", " ">>)

\* The number of Line Records the specification asks of a stream.
ExpectedRecords(d) ==
    Newlines(Concat(d))
    + (IF Concat(d) # <<>> /\ Concat(d)[Len(Concat(d))] # NL THEN 1 ELSE 0)

\* The de-styled texts of the emitted records, in order.
RecordTexts == [k \in 1..Len(diff_content) |-> Destyle(MarkupOf(diff_content[k]))]

\* process_diff went into the reassembly and has left it, by return or by
\* exception.
ReassemblyLeft == "reassembly" \in ran /\ pc \in {"done", "raised"}

\* process_diff went into the reassembly and returned the page.
Returned == pc = "done" /\ result = "html"

-----------------------------------------------------------------------------
(* Properties.                                                             *)

\* C1: once the reassembly is over, the number of emitted Line Records is
\* the number of newlines in all fragments, plus one if their concatenation
\* is non-empty and does not end in a newline.
C1_RecordCount == ReassemblyLeft => Len(diff_content) = ExpectedRecords(diffs)

\* C2: when process_diff returns the page, the de-styled texts of the
\* records, joined with newline, are the concatenation of all fragments as
\* shown (the newline that ends the last line may be implied by the record):
\* nothing is dropped, duplicated or reordered.
C2_TextPreserved ==
    Returned =>
        \/ Join(RecordTexts, <<NL>>) = Shown(Concat(diffs))
        \/ Join(RecordTexts, <<NL>>) \o <<NL>> = Shown(Concat(diffs))

\* C3: when the stream is exhausted with a non-empty Pending Buffer (here
\* after at least one line was closed), the flush emits exactly one more
\* record, and its markup renders exactly the pairs of the buffer, in order.
C3_FinalFlush ==
    [][(pc = "loop" /\ idx > Len(diffs) /\ temp # <<>> /\ line # <<>>)
         => /\ pc' = "done"
            /\ Len(diff_content') = Len(diff_content) + 1
            /\ MarkupOf(diff_content'[Len(diff_content')]) = render_temp(temp)]_vars

\* C4: the loop and the flush never raise, and a non-empty stream with no
\* newline gives exactly one Line Record.
C4_NeverRaises ==
    /\ "diff_main" \in ran => pc # "raised"
    /\ (ReassemblyLeft /\ Concat(diffs) # <<>> /\ Newlines(Concat(diffs)) = 0)
         => (pc = "done" /\ Len(diff_content) = 1)

\* C5: in the page returned, every character of every record stands in
\* the class of an operation that produced it: some operation of the stream
\* has that class and that character in its fragment (INSERT in an added
\* span, DELETE in a deleted span, EQUAL outside any span).
C5_ClassPreserved ==
    Returned =>
        \A k \in 1..Len(diff_content) :
            LET shown == Classify(MarkupOf(diff_content[k]), "none")
            IN \A j \in 1..Len(shown) :
                 \E i \in 1..Len(diffs) :
                    \E n \in 1..Len(TagFragment(diffs[i][1], diffs[i][2])) :
                       TagFragment(diffs[i][1], diffs[i][2])[n] = shown[j]

\* C6: the k-th emitted Line Record shows line number k, the flushed one
\* included, whatever the kinds and the number of operations behind it.
C6_LineNumbers ==
    \A k \in 1..Len(diff_content) : LineNumOf(diff_content[k]) = k

\* A page of three records from operations of two kinds, the last record
\* being the flushed one.
C6_Witness ==
    /\ Returned
    /\ Len(diff_content) = 3
    /\ Concat(diffs)[Len(Concat(diffs))] # NL
    /\ \E i, j \in 1..Len(diffs) : diffs[i][1] # diffs[j][1]

\* C7: an operation whose fragment has k >= 1 newlines closes exactly k
\* records, numbered on from the last one: the first shows the pending pairs
\* and then the fragment's first segment, each later one shows its own
\* segment only; and the lone INSERT "x\ny\n" gives exactly two records,
\* numbered 1 and 2, each one added span.
C7_OnePerNewline ==
    [][/\ (pc = "loop" /\ idx <= Len(diffs) /\ Newlines(diffs[idx][2]) >= 1)
           => LET o == diffs[idx][1]
                  k == Newlines(diffs[idx][2])
                  segs == TaggedLines(TagFragment(o, diffs[idx][2]))
                  base == Len(diff_content)
              IN /\ Len(diff_content') = base + k
                 /\ Classify(MarkupOf(diff_content'[base + 1]), "none")
                      = TagPairs(temp) \o segs[1]
                 /\ \A j \in 2..k :
                      Classify(MarkupOf(diff_content'[base + j]), "none") = segs[j]
                 /\ \A j \in 1..k : LineNumOf(diff_content'[base + j]) = base + j
       /\ (pc' = "done" /\ diffs = ExampleInsert)
           => diff_content' =
                << DivHead \o <<"1">> \o SpanClose
                     \o OpenAdded \o <<"x">> \o SpanClose \o DivClose,
                   DivHead \o <<"2">> \o SpanClose
                     \o OpenAdded \o <<"y">> \o SpanClose \o DivClose >>]_vars

\* A fragment of two newlines has just been processed with a pair pending
\* before it, and closed two records.
C7_Witness ==
    /\ pc = "loop"
    /\ idx = 3
    /\ diffs[1][2] = <<"a">>
    /\ Newlines(diffs[2][2]) = 2
    /\ Len(diff_content) = 2

\* C8: once past the comparison with two fetched documents that are equal,
\* process_diff has returned the sentinel, and neither the diff engine nor
\* the reassembly has run: there is no stream and no record.
C8_SameContent ==
    (/\ pc \notin {"fetch1", "fetch2", "compare"}
     /\ HasDocument(content1) /\ HasDocument(content2)
     /\ content1 = content2)
      => /\ pc = "done"
         /\ result = SAME_CONTENT
         /\ ran = {}
         /\ diffs = <<>>
         /\ diff_content = <<>>

\* Both fetches succeeded with the same page, escaped alike, and the
\* sentinel came back.
C8_Witness ==
    /\ pc = "done"
    /\ upstream = <<"ok", "ok">>
    /\ content1 = Page /\ content2 = Page
    /\ result = SAME_CONTENT

\* The same with two equal style sheets.
EqualSheetsReturned ==
    /\ pc = "done"
    /\ upstream = <<"ok", "ok">>
    /\ content1 = Sheet /\ content2 = Sheet
    /\ result = SAME_CONTENT

\* The same with two equal scripts.
EqualScriptsReturned ==
    /\ pc = "done"
    /\ upstream = <<"ok", "ok">>
    /\ content1 = Script /\ content2 = Script
    /\ result = SAME_CONTENT

\* Documents of different types fetched from the same body are not equal:
\* a page and a script went to the engine.
PageAgainstScript ==
    /\ pc = "loop"
    /\ content1 = Page /\ content2 = Script
    /\ "diff_main" \in ran

\* The upstream failures the specification names.
UpstreamFailures == {"network", "status", "content_type"}

\* The i-th fetch left by exception.
FetchRaised(i) == pc = "raised" /\ "diff_main" \notin ran /\ Len(upstream) = i

\* C9: a fetch that met a network failure, a non-200 status or an
\* unsupported content type returned None and did not raise.
C9_FailureIsNone ==
    \A i \in 1..Len(upstream) :
        upstream[i] \in UpstreamFailures
          => /\ ~FetchRaised(i)
             /\ (IF i = 1 THEN content1 ELSE content2) = None

\* A fetch yielded no document: it returned, and what it returned is None
\* or empty.
NoDocumentYielded ==
    \/ Len(upstream) >= 1 /\ ~FetchRaised(1) /\ ~HasDocument(content1)
    \/ Len(upstream) = 2 /\ ~FetchRaised(2) /\ ~HasDocument(content2)

\* C10: if a fetch yielded no document, the diff engine and the reassembly
\* never run, and process_diff ends by returning None.
C10_NoDocumentNoDiff ==
    NoDocumentYielded
      => /\ ran = {}
         /\ diff_content = <<>>
         /\ pc \in {"done", "raised"} => (pc = "done" /\ result = None)

\* The part of C9 that holds: a fetch that met a non-200 status, a content
\* too short or an unsupported content type returned None and did not
\* raise.
ReturnedFailureIsNone ==
    \A i \in 1..Len(upstream) :
        upstream[i] \in {"status", "short", "content_type"}
          => /\ ~FetchRaised(i)
             /\ (IF i = 1 THEN content1 ELSE content2) = None

\* What makes a fetch raise: the network, the body of the agent list, a
\* missing Content-Type header, an html document without a head.
RaisingFetches ==
    \A i \in 1..Len(upstream) :
        FetchRaised(i)
          <=> /\ i = Len(upstream)
              /\ pc = "raised"
              /\ ran = {}
              /\ upstream[i] \in {"network", "agent_body", "no_header", "no_head"}

\* The part of C10 that holds: when no fetch raised and one yielded no
\* document, the engine and the reassembly never run and None is returned.
NoDocumentWhenFetchesReturn ==
    (NoDocumentYielded /\ \A i \in 1..Len(upstream) : ~FetchRaised(i))
      => /\ ran = {}
         /\ diff_content = <<>>
         /\ pc \in {"done", "raised"} => (pc = "done" /\ result = None)

\* The stream without its operations of empty fragment.
NonEmptyOps(d) == SelectSeq(d, LAMBDA e : e[2] # <<>>)

\* How many times `sub` stands in s.
Occurrences(s, sub) == Cardinality({i \in 1..Len(s) : At(s, i, sub)})

\* How many added and deleted spans the records hold.
RECURSIVE SpanCount(_)
SpanCount(records) ==
    IF records = <<>> THEN 0
    ELSE Occurrences(MarkupOf(Head(records)), OpenAdded)
         + Occurrences(MarkupOf(Head(records)), OpenDeleted)
         + SpanCount(Tail(records))

\* C11: an operation of empty fragment leaves the Pending Buffer, the
\* emitted records and the next line number as they were, whatever its kind
\* and place; and it creates no span and no line: the page returned has no
\* more records and no more spans than the stream without such operations
\* gives.
C11_EmptyFragment ==
    [][/\ (pc = "loop" /\ idx <= Len(diffs) /\ diffs[idx][2] = <<>>)
           => /\ temp' = temp
              /\ diff_content' = diff_content
              /\ line_number' = line_number
       /\ (pc' = "done" /\ result' = "html")
           => /\ Len(diff_content')
                   <= Len(reassemble(NonEmptyOps(diffs')).diff_content)
              /\ SpanCount(diff_content')
                   <= SpanCount(reassemble(NonEmptyOps(diffs')).diff_content)]_vars

\* The first half of C11 alone: the frame of the loop's iteration.
EmptyFragmentFrame ==
    [][(pc = "loop" /\ idx <= Len(diffs) /\ diffs[idx][2] = <<>>)
           => /\ temp' = temp
              /\ diff_content' = diff_content
              /\ line_number' = line_number]_vars

\* The reassembly function and the state machine agree.
ReassembleAgrees ==
    ReassemblyLeft
      => /\ (pc = "raised") = reassemble(diffs).raised
         /\ diff_content = reassemble(diffs).diff_content

\* The stream with every unknown kind replaced by DIFF_EQUAL.
AsEqual(d) ==
    [i \in 1..Len(d) |->
        <<IF d[i][1] \in Kinds THEN d[i][1] ELSE DIFF_EQUAL, d[i][2]>>]

\* C12: an operation of unknown kind is rendered exactly as an EQUAL one
\* with the same fragment.  When it closes lines, the first shows the
\* pending pairs and then its first segment outside any span, the later
\* ones their own segment outside any span; and once the reassembly is over
\* the outcome is that of the stream with DIFF_EQUAL in its place: the same
\* records, and an exception only where that stream raises one too.
C12_UnknownAsEqual ==
    [][/\ (pc = "loop" /\ idx <= Len(diffs) /\ diffs[idx][1] \notin Kinds
             /\ Newlines(diffs[idx][2]) >= 1)
           => LET k == Newlines(diffs[idx][2])
                  segs == TaggedLines(TagFragment(DIFF_EQUAL, diffs[idx][2]))
                  base == Len(diff_content)
              IN /\ Len(diff_content') = base + k
                 /\ Classify(MarkupOf(diff_content'[base + 1]), "none")
                      = TagPairs(AsEqual(temp)) \o segs[1]
                 /\ \A j \in 2..k :
                      Classify(MarkupOf(diff_content'[base + j]), "none") = segs[j]
       /\ ReassemblyLeft'
           => /\ (pc' = "raised") = reassemble(AsEqual(diffs')).raised
              /\ diff_content' = reassemble(AsEqual(diffs')).diff_content]_vars

\* The page came back from a stream in which an operation of unknown kind
\* follows a pending INSERT and closes the line with text of its own.
C12_Witness ==
    /\ Returned
    /\ Len(diffs) = 2
    /\ diffs[1][1] = DIFF_INSERT /\ diffs[1][2] = <<"a">>
    /\ diffs[2][1] \notin Kinds /\ diffs[2][2] = <<"a", NL>>
    /\ Len(diff_content) = 1

\* C13: while every operation of the stream has kind EQUAL, no emitted
\* Line Record holds a span of class added or deleted, the flushed record
\* included.
C13_EqualOnlyNoSpans ==
    (\A i \in 1..Len(diffs) : diffs[i][1] = DIFF_EQUAL)
      => \A k \in 1..Len(diff_content) :
            /\ Occurrences(MarkupOf(diff_content[k]), OpenAdded) = 0
            /\ Occurrences(MarkupOf(diff_content[k]), OpenDeleted) = 0

\* A page of two records, the second one flushed, came back from two EQUAL
\* operations.
C13_Witness ==
    /\ Returned
    /\ Len(diffs) = 2
    /\ \A i \in 1..Len(diffs) : diffs[i][1] = DIFF_EQUAL /\ diffs[i][2] # <<>>
    /\ Len(diff_content) = 2
    /\ Concat(diffs)[Len(Concat(diffs))] # NL

\* The opening tag of a line block.
LineDivOpen == SubSeq(DivHead, 4, 21)

\* The positions of the page where a tag opens.
TagPlaces(page) == {i \in 1..Len(page) : page[i] = "<"}

\* The k-th smallest element of a set of positions.
Nth(S, k) == CHOOSE x \in S : Cardinality({y \in S : y < x}) = k - 1

\* The line blocks of the page, in page order: each runs from an opening
\* tag of class line to the next closing div tag.
LineBlocks(page) ==
    LET tags == TagPlaces(page)
        opens == {i \in tags : At(page, i, LineDivOpen)}
        closes == {i \in tags : At(page, i, DivClose)}
    IN [k \in 1..Cardinality(opens) |->
          LET i == Nth(opens, k)
              j == Nth({c \in closes : c > i}, 1)
          IN SubSeq(page, i, j + Len(DivClose) - 1)]

\* C14: the page returned holds exactly one block of class line for each
\* emitted Line Record and no other: the k-th block of the page is the k-th
\* record, its label and its markup, so every record is there once and in
\* the order of emission.
C14_RecordsInPage ==
    Returned
      => LET blocks == LineBlocks(html[1])
         IN /\ Len(blocks) = Len(diff_content)
            /\ \A k \in 1..Len(blocks) :
                  <<"\t", "\t", "\t">> \o blocks[k] = diff_content[k]

\* A page of three records came back.
C14_Witness ==
    /\ Returned
    /\ Len(diff_content) = 3
    /\ Len(LineBlocks(html[1])) = 3

\* C15: every run of the reassembly, in the first call and in the one that
\* follows it, starts with an empty Pending Buffer, no record and the
\* counter at 1, and ends as the stream alone determines: the records (or
\* the exception) are those of the reassembly function started afresh.  A
\* second call given the stream of the first ends as the first did, with
\* identical Line Records: nothing of the first run shows in the second.
C15_RunsIdentical ==
    /\ (pc = "loop" /\ idx = 1)
         => /\ temp = <<>>
            /\ diff_content = <<>>
            /\ line_number = 1
            /\ op = <<>> /\ line = <<>>
    /\ ReassemblyLeft
         => /\ (pc = "raised") = reassemble(diffs).raised
            /\ diff_content = reassemble(diffs).diff_content
    /\ (ReassemblyLeft /\ first # <<>> /\ diffs = first[1].diffs)
         => /\ (pc = "raised") = first[1].raised
            /\ diff_content = first[1].diff_content

\* The second call, given the stream of two operations the first was given,
\* has returned a page of two records, as the first had.
C15_Witness ==
    /\ "rerun" \in ran
    /\ first # <<>>
    /\ diffs = first[1].diffs
    /\ Returned
    /\ Len(diffs) = 2
    /\ Len(diff_content) = 2
    /\ Len(first[1].diff_content) = 2

\* The segments of a text between its newlines, read off character by
\* character; the last is what follows the last newline.
SegmentsOf(text) ==
    LET tl == TaggedLines([i \in 1..Len(text) |-> <<text[i], "none">>])
    IN [j \in 1..Len(tl) |-> [n \in 1..Len(tl[j]) |-> tl[j][n][1]]]

\* The texts of a buffer's pairs, one after the other.
TextsOf(t) == Concat(t)

\* What the specification asks of the escaping: a space is one entity, a
\* tab four, any other character itself.
RECURSIVE EscapeChars(_)
EscapeChars(text) ==
    IF text = <<>> THEN <<>>
    ELSE (IF Head(text) = " " THEN NBSP
          ELSE IF Head(text) = "\t" THEN NBSP \o NBSP \o NBSP \o NBSP
          ELSE <<Head(text)>>)
         \o EscapeChars(Tail(text))

\* A markup without its span tags.
RECURSIVE StripTags(_)
StripTags(m) ==
    IF m = <<>> THEN <<>>
    ELSE IF StartsWith(m, SpanClose) THEN StripTags(Drop(m, Len(SpanClose)))
    ELSE IF StartsWith(m, OpenAdded) THEN StripTags(Drop(m, Len(OpenAdded)))
    ELSE IF StartsWith(m, OpenDeleted) THEN StripTags(Drop(m, Len(OpenDeleted)))
    ELSE <<Head(m)>> \o StripTags(Tail(m))

\* C16: wherever pairs are rendered into a record, by an operation that
\* closes lines or by the flush, and whatever the kinds of the pairs, the
\* record's markup without its span tags is the pairs' text with each space
\* replaced by one "&nbsp;", each tab by four, and every other character
\* unchanged and in place.
C16_Escaping ==
    [][/\ (pc = "loop" /\ idx <= Len(diffs) /\ Newlines(diffs[idx][2]) >= 1)
           => LET segs == SegmentsOf(diffs[idx][2])
                  base == Len(diff_content)
              IN /\ Len(diff_content') = base + Len(segs) - 1
                 /\ StripTags(MarkupOf(diff_content'[base + 1]))
                      = EscapeChars(TextsOf(temp) \o segs[1])
                 /\ \A j \in 2..(Len(segs) - 1) :
                      StripTags(MarkupOf(diff_content'[base + j]))
                        = EscapeChars(segs[j])
       /\ (pc = "loop" /\ idx > Len(diffs) /\ temp # <<>> /\ pc' = "done")
           => StripTags(MarkupOf(diff_content'[Len(diff_content')]))
                = EscapeChars(TextsOf(temp) \o line[1])]_vars

\* A DELETE of a tab has just closed a line after a pending EQUAL space.
C16_Witness ==
    /\ pc = "loop"
    /\ idx = 3
    /\ diffs[1] = <<DIFF_EQUAL, <<" ">> >>
    /\ diffs[2] = <<DIFF_DELETE, <<"\t", NL>> >>
    /\ Len(diff_content) = 1
    /\ temp = <<>>

\* The characters of a sequence of (kind, text) pairs, each with the kind of
\* its pair.
RECURSIVE KindTag(_)
KindTag(d) ==
    IF d = <<>> THEN <<>>
    ELSE [i \in 1..Len(d[1][2]) |-> <<d[1][2][i], d[1][1]>>] \o KindTag(Tail(d))

\* What follows the last newline of a stream, each character with the kind
\* of its operation; empty if nothing follows it.
OpenLine(d) == TaggedLines(KindTag(d))[Len(TaggedLines(KindTag(d)))]

\* C17: after each operation and before the flush, the Pending Buffer holds
\* exactly what follows the last newline of the fragments processed so far,
\* each character under the kind of the operation it came from (so the
\* buffer is empty if nothing follows that newline).  An operation that
\* completes a line leaves in the buffer nothing but its own tail; one that
\* completes none takes nothing out of it.
C17_PendingIsOpenLine ==
    [][(pc = "loop" /\ idx <= Len(diffs))
         => /\ KindTag(temp') = OpenLine(SubSeq(diffs, 1, idx))
            /\ Len(diff_content') > Len(diff_content)
                 => KindTag(temp') = OpenLine(<<diffs[idx]>>)
            /\ Len(diff_content') = Len(diff_content)
                 => /\ Len(temp') >= Len(temp)
                    /\ SubSeq(temp', 1, Len(temp)) = temp
            /\ (temp # <<>> /\ temp' = <<>>)
                 => Len(diff_content') > Len(diff_content)]_vars

\* After a line was closed the buffer holds an INSERT tail and then a
\* DELETE partial.
C17_Witness ==
    /\ pc = "loop"
    /\ idx = 3
    /\ Len(diff_content) = 1
    /\ temp = << <<DIFF_INSERT, <<"a">> >>, <<DIFF_DELETE, <<"a">> >> >>

\* What the specification asks of one pair: INSERT and DELETE text in a span
\* of its class, EQUAL text bare; the text escaped.
SpecPair(k, text) ==
    IF k = DIFF_INSERT THEN OpenAdded \o EscapeChars(text) \o SpanClose
    ELSE IF k = DIFF_DELETE THEN OpenDeleted \o EscapeChars(text) \o SpanClose
    ELSE EscapeChars(text)

\* The pairs one after the other, in the order they stand in.
RECURSIVE SpecPairs(_)
SpecPairs(pairs) ==
    IF pairs = <<>> THEN <<>>
    ELSE SpecPair(pairs[1][1], pairs[1][2]) \o SpecPairs(Tail(pairs))

\* The pairs a record closed by the j-th whole-line segment of an operation
\* is made of: for the first segment the pairs pending since the last line
\* boundary and then the segment, for a later one the segment alone, since
\* nothing is pending after a line was closed.
ClosedPairs(pending, k, text, j) ==
    IF j = 1
    THEN Append(pending, <<k, SegmentsOf(text)[1]>>)
    ELSE << <<k, SegmentsOf(text)[j]>> >>

\* C18: every record an operation closes, one for each whole-line segment
\* of its fragment, has for markup the pairs pending since the previous
\* line boundary, rendered in the order they were appended, followed by the
\* rendered closing segment; pairs are neither sorted nor grouped nor
\* merged, INSERT and DELETE text stands in a span of its class and EQUAL
\* text bare.  So [(EQUAL, "ab"), (INSERT, "c\n")] gives line 1 = ab
\* followed by an added span holding c.
C18_MarkupInOrder ==
    [][/\ (pc = "loop" /\ idx <= Len(diffs) /\ Newlines(diffs[idx][2]) >= 1)
           => /\ Len(diff_content')
                  = Len(diff_content) + Newlines(diffs[idx][2])
              /\ \A j \in 1..Newlines(diffs[idx][2]) :
                    MarkupOf(diff_content'[Len(diff_content) + j])
                      = SpecPairs(ClosedPairs(temp, diffs[idx][1],
                                              diffs[idx][2], j))
       /\ (pc = "loop" /\ diffs = ExampleMixed /\ idx = 2)
           => diff_content' =
                << DivHead \o <<"1">> \o SpanClose \o <<"a", "b">>
                     \o OpenAdded \o <<"c">> \o SpanClose \o DivClose >>]_vars

\* A DELETE and an EQUAL were pending when an INSERT closed two lines: the
\* first record is a deleted span, the bare text and an added span, in that
\* order, and the second is the added span of the second segment alone.
C18_Witness ==
    /\ pc = "loop"
    /\ idx = 4
    /\ diffs = << <<DIFF_DELETE, <<"x">> >>, <<DIFF_EQUAL, <<"y">> >>,
                  <<DIFF_INSERT, <<"z", NL, "w", NL>> >> >>
    /\ Len(diff_content) = 2
    /\ MarkupOf(diff_content[1])
         = OpenDeleted \o <<"x">> \o SpanClose \o <<"y">>
             \o OpenAdded \o <<"z">> \o SpanClose
    /\ MarkupOf(diff_content[2]) = OpenAdded \o <<"w">> \o SpanClose

\* Two pairs of the same kind pending are rendered as two spans, not one.
PendingNotMerged ==
    /\ pc = "loop"
    /\ idx = 4
    /\ diffs = << <<DIFF_INSERT, <<"x">> >>, <<DIFF_INSERT, <<"y">> >>,
                  <<DIFF_EQUAL, <<"z", NL, "w", NL>> >> >>
    /\ MarkupOf(diff_content[1])
         = OpenAdded \o <<"x">> \o SpanClose \o OpenAdded \o <<"y">>
             \o SpanClose \o <<"z">>

\* The text after the last newline of a text that has one.
AfterLastNewline(text) ==
    LET last == CHOOSE i \in 1..Len(text) :
                    text[i] = NL /\ \A j \in (i + 1)..Len(text) : text[j] # NL
    IN SubSeq(text, last + 1, Len(text))

\* process_line partitions the fragment `data`.
Partitions(data) ==
    LET r == process_line(data)
    IN IF Newlines(data) = 0
       THEN /\ r.partial = <<data>>
            /\ r.whole_lines = <<>>
            /\ r.remaining = <<>>
       ELSE /\ r.partial = <<>>
            /\ r.whole_lines # <<>>
            /\ Len(r.whole_lines[1]) = Newlines(data)
            /\ \A j \in 1..Len(r.whole_lines[1]) :
                  Newlines(r.whole_lines[1][j]) = 0
            /\ (r.remaining # <<>>) <=> (AfterLastNewline(data) # <<>>)
            /\ r.remaining # <<>> => r.remaining[1] = AfterLastNewline(data)
            /\ Join(Append(r.whole_lines[1],
                           IF r.remaining # <<>> THEN r.remaining[1] ELSE <<>>),
                    <<NL>>) = data

\* C19: process_line partitions every fragment of the stream: without a
\* newline, only the partial segment, equal to the fragment; with k >= 1
\* newlines, no partial, exactly k whole-line segments, a remaining tail
\* that is there iff the text after the last newline is non-empty, and the
\* whole-line segments and the tail (or the empty string) joined with newline
\* give back the fragment.
C19_ProcessLinePartitions ==
    \A i \in 1..Len(diffs) : Partitions(diffs[i][2])

\* The loop has processed a fragment of two newlines and a tail: two
\* whole-line segments, the first of them empty, and the tail pending.
C19_Witness ==
    /\ pc = "loop"
    /\ idx = 2
    /\ diffs[1][2] = <<NL, NL, "a">>
    /\ Len(diff_content) = 2
    /\ Len(temp) = 1

\* s ends with suffix.
EndsWith(s, suffix) ==
    Len(s) >= Len(suffix)
    /\ SubSeq(s, Len(s) - Len(suffix) + 1, Len(s)) = suffix

\* The half of C20 that is about the record as written: every whole-line
\* segment of an INSERT or DELETE fragment, the empty one too, ends the
\* markup of the record it closes with a span of its class around the
\* segment.  It holds whatever the text is.
EmptySegmentSpanWritten ==
    [][(pc = "loop" /\ idx <= Len(diffs) /\ Newlines(diffs[idx][2]) >= 1
          /\ diffs[idx][1] \in {DIFF_INSERT, DIFF_DELETE})
         => LET o == diffs[idx][1]
                open == IF o = DIFF_INSERT THEN OpenAdded ELSE OpenDeleted
                segs == SegmentsOf(diffs[idx][2])
                base == Len(diff_content)
            IN \A j \in 1..Newlines(diffs[idx][2]) :
                  /\ base + j <= Len(diff_content')
                  /\ EndsWith(MarkupOf(diff_content'[base + j]),
                              open \o EscapeChars(segs[j]) \o SpanClose)]_vars

\* The kinds of the operations that hold the newlines of the stream, in
\* order: the r-th record is closed by a whole-line segment of an operation
\* of the r-th kind.
RECURSIVE ClosingKinds(_)
ClosingKinds(d) ==
    IF d = <<>> THEN <<>>
    ELSE [j \in 1..Newlines(d[1][2]) |-> d[1][1]] \o ClosingKinds(Tail(d))

\* The half of C20 that is about the sidebar: once the script has run, every
\* line closed by a whole-line segment of an INSERT fragment has a green or
\* orange marker and every line closed by one of a DELETE fragment a red or
\* orange one.
SidebarColoursChange ==
    sidebar # <<>>
      => LET closing == ClosingKinds(diffs)
         IN \A r \in 1..Len(closing) :
               /\ closing[r] = DIFF_INSERT
                    => /\ r <= Len(sidebar[1])
                       /\ sidebar[1][r] \in {"green", "orange"}
               /\ closing[r] = DIFF_DELETE
                    => /\ r <= Len(sidebar[1])
                       /\ sidebar[1][r] \in {"red", "orange"}

\* C20: every whole-line segment of an INSERT or DELETE fragment, the empty
\* one too, puts a span of its class into the record it closes: the record's
\* markup ends with that span around the segment, and the sidebar gives the
\* line a colour of that class (green or orange for added, red or orange for
\* deleted), never transparent.
C20_EmptySegmentSpan == EmptySegmentSpanWritten /\ []SidebarColoursChange

\* A line of EQUAL text was closed by an inserted newline alone: its record
\* is the text and an empty added span, and its marker is green.
C20_Witness ==
    /\ sidebar = << <<"green">> >>
    /\ diffs = << <<DIFF_EQUAL, <<"a">> >>, <<DIFF_INSERT, <<NL>> >> >>
    /\ MarkupOf(diff_content[1]) = <<"a">> \o OpenAdded \o SpanClose

\* On a page whose text holds no tag of its own the script runs and draws
\* one marker for each record, of the colour the spans written into the
\* record decide.
SidebarPerRecord ==
    sidebar # <<>>
      => sidebar[1]
           = [k \in 1..Len(diff_content) |->
                color_of(Occurrences(MarkupOf(diff_content[k]), OpenAdded) > 0,
                         Occurrences(MarkupOf(diff_content[k]), OpenDeleted) > 0)]

\* A page was loaded on which the script drew no marker although a record
\* holds an added span: an element left open by the text swallowed it.
SidebarSwallowed ==
    /\ sidebar = << <<>> >>
    /\ \E k \in 1..Len(diff_content) :
          Occurrences(MarkupOf(diff_content[k]), OpenAdded) > 0

\* What the specification asks main to do with a result: an error message
\* for None, a success message for the sentinel, save_file and then the
\* browser for a page when "Open in new window" is chosen, the inline
\* display for a page otherwise.
ExpectedOutcomes(r, view_option) ==
    IF r = None THEN << <<"st.error", "message">> >>
    ELSE IF r = SAME_CONTENT THEN << <<"st.success", "message">> >>
    ELSE IF view_option = "Open in new window"
    THEN << <<"save_file", r>>, <<"webbrowser.open_new_tab", "file_location">> >>
    ELSE << <<"components.html", r>> >>

\* process_diff is entered only from a submitted form with both URLs, with
\* the historical URL first and the current URL second.
CalledAsAsked ==
    /\ pc \notin {"main", "main_end"} => args # <<>>
    /\ args # <<>>
         => /\ form # <<>>
            /\ form[1].diff_submitted
            /\ form[1].current_url # "" /\ form[1].historical_url # ""
            /\ args = <<form[1].historical_url, form[1].current_url>>
    /\ args = <<>> => (upstream = <<>> /\ ran = {} /\ outcomes = <<>>)

\* save_file is handed neither the sentinel nor None, and nothing is written
\* for them.
SaveFileOnlyPage ==
    \A i \in 1..Len(outcomes) :
        outcomes[i][1] = "save_file"
          => (outcomes[i][2] = "html" /\ result = "html")

\* C21: process_diff runs only after the comparison form was submitted with
\* both URLs non-empty, and is called with the historical URL first and the
\* current URL second; once the run of main that called it is over, exactly
\* the outcome its result asks for has followed (error message for None,
\* success message and no file for the sentinel, save_file and then the
\* browser for "Open in new window", inline display otherwise); and
\* save_file is never called with the sentinel or with None.
C21_MainOutcome ==
    /\ CalledAsAsked
    /\ SaveFileOnlyPage
    /\ (args # <<>> /\ pc \in {"main_end", "raised", "main_raised"})
         => /\ pc = "main_end"
            /\ outcomes = ExpectedOutcomes(result, form[1].view_option)

\* C21 where process_diff returns: the same, for the runs of main that were
\* not left by an exception.
MainOutcomeWhenReturned ==
    /\ CalledAsAsked
    /\ SaveFileOnlyPage
    /\ (args # <<>> /\ pc = "main_end")
         => outcomes = ExpectedOutcomes(result, form[1].view_option)
    /\ (args # <<>> /\ pc \in {"done", "main_open", "main_raised"})
         => /\ Len(outcomes) <= 1
            /\ outcomes = SubSeq(ExpectedOutcomes(result, form[1].view_option),
                                 1, Len(outcomes))
    /\ pc = "main_raised"
         => outcomes = << <<"save_file", "html">> >>

\* save_file was handed the page and raised: main was left before the
\* browser was opened.
SaveFileRaised ==
    /\ pc = "main_raised"
    /\ result = "html"
    /\ outcomes = << <<"save_file", "html">> >>

\* A run of main is over in which process_diff returned a page and the page
\* was saved and then opened in the browser.
MainOutcomesSeen ==
    /\ pc = "main_end"
    /\ args # <<>>
    /\ result = "html"
    /\ form[1].view_option = "Open in new window"
    /\ Len(outcomes) = 2

====
